---- MODULE Spec2Model ----
(***************************************************************************)
(* Model of app/api/posts/route.ts: the POST handler (create a post, move  *)
(* its files out of temporary storage, record them, set the cover image,   *)
(* compensate on failure) and the GET handler (visibility-aware paginated  *)
(* listing).  The database holds users, follows, posts and images; the     *)
(* object storage holds temporary and final objects.                       *)
(***************************************************************************)
EXTENDS Integers, Sequences, FiniteSets, TLC

\* ------------------------------------------------------------------ bounds

\* Longest files list a creation request carries.
MaxFiles == 2

\* ------------------------------------------------------------- fixed data

None == "none"

Users == {"u1", "u2"}

\* Session emails: e1 and e2 have a user record, e3 has none; "none" is a
\* request without a session.
Emails == {"e1", "e2", "e3"}

Sessions == {None} \cup Emails

Visibilities == {"PUBLIC", "FOLLOWERS", "PRIVATE"}

Categories == {"CAT_A", "CAT_B"}

\* prisma.user.findUnique({ where: { email } }): the user record or null.
FindUser(email) ==
    CASE email = "e1" -> "u1"
      [] email = "e2" -> "u2"
      [] OTHER -> None

\* Posts present before any request of the behaviour: one per owner,
\* visibility and draft flag, in both categories, ids in creation order.
SeedPosts ==
    { [id |-> 1,  userId |-> "u1", visibility |-> "PUBLIC",    category |-> "CAT_A", isDraft |-> FALSE, coverImage |-> <<"null">>],
      [id |-> 2,  userId |-> "u1", visibility |-> "FOLLOWERS", category |-> "CAT_B", isDraft |-> FALSE, coverImage |-> <<"null">>],
      [id |-> 3,  userId |-> "u1", visibility |-> "PRIVATE",   category |-> "CAT_A", isDraft |-> FALSE, coverImage |-> <<"null">>],
      [id |-> 4,  userId |-> "u2", visibility |-> "PUBLIC",    category |-> "CAT_B", isDraft |-> FALSE, coverImage |-> <<"null">>],
      [id |-> 5,  userId |-> "u2", visibility |-> "FOLLOWERS", category |-> "CAT_A", isDraft |-> FALSE, coverImage |-> <<"null">>],
      [id |-> 6,  userId |-> "u2", visibility |-> "PRIVATE",   category |-> "CAT_B", isDraft |-> FALSE, coverImage |-> <<"null">>],
      [id |-> 7,  userId |-> "u1", visibility |-> "PUBLIC",    category |-> "CAT_B", isDraft |-> TRUE,  coverImage |-> <<"null">>],
      [id |-> 8,  userId |-> "u2", visibility |-> "PUBLIC",    category |-> "CAT_A", isDraft |-> TRUE,  coverImage |-> <<"null">>],
      [id |-> 9,  userId |-> "u1", visibility |-> "PRIVATE",   category |-> "CAT_B", isDraft |-> TRUE,  coverImage |-> <<"null">>],
      [id |-> 10, userId |-> "u2", visibility |-> "FOLLOWERS", category |-> "CAT_B", isDraft |-> TRUE,  coverImage |-> <<"null">>] }

\* ------------------------------------------------------- strings and files

\* String.prototype.includes on strings held as sequences of characters.
Includes(h, s) ==
    \E i \in 0..(Len(h) - Len(s)) : SubSeq(h, i + 1, i + Len(s)) = s

\* f.s3Key.split('/').pop() || '' : the last path segment of the key.
BaseName(s3Key) ==
    IF Len(s3Key.path) = 0 THEN <<>> ELSE s3Key.path[Len(s3Key.path)]

\* A key of temporary storage, by its path segments.
TempKey(path) == [store |-> "temp", path |-> path]

\* The uploaded files a request may name: temp/a and temp/ab.
FilePool ==
    { [s3Key |-> TempKey(<< <<"t">>, <<"a">> >>),      fileName |-> "n1"],
      [s3Key |-> TempKey(<< <<"t">>, <<"a", "b">> >>), fileName |-> "n2"] }

\* All files lists of length 0..MaxFiles over the pool.
FileLists == UNION { [1..n -> FilePool] : n \in 0..MaxFiles }

\* The value of the body's "files" member: absent, an array, or a value
\* that is neither an array nor iterable (an object, a number).
FilesValues ==
    { [kind |-> "absent", items |-> <<>>], [kind |-> "nonlist", items |-> <<>>] }
    \cup { [kind |-> "list", items |-> l] : l \in FileLists }

\* The value of the body's "coverImage" member: absent or empty, a string,
\* or a truthy value that is not a string.
CoverValues ==
    { [kind |-> "absent", chars |-> <<>>],
      [kind |-> "nonstring", chars |-> <<>>],
      [kind |-> "str", chars |-> <<"x", "a">>],
      [kind |-> "str", chars |-> <<"x", "a", "b">>],
      [kind |-> "str", chars |-> <<"x">>] }

\* Request bodies of POST.
Bodies ==
    [ title : BOOLEAN, description : BOOLEAN, category : Categories \cup {None},
      visibility : Visibilities, isDraft : BOOLEAN,
      coverImage : CoverValues, files : FilesValues ]

NoBody ==
    [ title |-> FALSE, description |-> FALSE, category |-> None,
      visibility |-> "PUBLIC", isDraft |-> FALSE,
      coverImage |-> [kind |-> "absent", chars |-> <<>>],
      files |-> [kind |-> "absent", items |-> <<>>] ]

\* generateFinalKey(userId, postId, fileName, visibility).
GenerateFinalKey(userId, postId, fileName, visibility) ==
    [store |-> "final", path |-> <<userId, postId, fileName, visibility>>]

\* https://<bucket>.s3.<region>.amazonaws.com/<key>
UrlOf(key) == <<"url", key>>

\* The temporary objects present before any request.
SeedTemp == {f.s3Key : f \in FilePool}

\* ------------------------------------------------------------------ state

VARIABLES
    follows,    \* Follow rows: <<follower, followee>>
    posts,      \* Post rows
    images,     \* Image rows, in creation order
    tempObjs,   \* keys present in temporary storage
    finalObjs,  \* keys present in final storage
    \* the creation request (POST)
    crPc,       \* position of the handler
    crSession,  \* session email of the caller, or None
    crBody,     \* parsed request body
    crUser,     \* user.id once resolved
    crPostId,   \* post.id once created, 0 before
    crIdx,      \* index of the file the loop is at
    crMoved,    \* movedFiles
    crCover,    \* finalCoverImage
    crResp,     \* response: status and body
    crLog,      \* what the request did, in order (history)
    \* the listing request (GET)
    gPc,        \* position of the handler
    gQuery,     \* query parameters and session of the request
    gWhere,     \* the where clause
    gPosts,     \* result of findMany
    gTotal,     \* result of count
    gSeen,      \* rows that matched when findMany read the page (history)
    gResp       \* response: status and pagination

dbVars == <<follows, posts, images, tempObjs, finalObjs>>

crVars == <<crPc, crSession, crBody, crUser, crPostId, crIdx, crMoved, crCover, crResp, crLog>>

gVars == <<gPc, gQuery, gWhere, gPosts, gTotal, gSeen, gResp>>

vars == <<dbVars, crVars, gVars>>

\* --------------------------------------------------------------- listing

Min(a, b) == IF a < b THEN a ELSE b

\* searchParams.get(name) || default, then parseInt.
ParseOr(raw, default) == IF raw = <<>> THEN default ELSE raw[1]

PageParams == {<<>>, <<0>>, <<1>>, <<2>>}

LimitParams == {<<>>, <<-2>>, <<0>>, <<1>>, <<3>>, <<60>>}

Queries ==
    [ page : PageParams, limit : LimitParams,
      visibility : Visibilities \cup {None}, category : Categories \cup {None},
      userId : Users \cup {None}, session : Sessions ]

NoQuery ==
    [ page |-> <<>>, limit |-> <<>>, visibility |-> None, category |-> None,
      userId |-> None, session |-> None ]

NoWhere == [visibility |-> None, category |-> None, userId |-> None, orUser |-> None]

NoPagination == [page |-> 0, limit |-> 0, total |-> 0, pages |-> [kind |-> "int", val |-> 0]]

\* Line 179: the default page.
DefaultPage == 1

\* Line 180: the default limit and the largest limit.
DefaultLimit == 10

MaxLimit == 50

PageOf(q) == ParseOr(q.page, DefaultPage)

LimitOf(q) == Min(ParseOr(q.limit, DefaultLimit), MaxLimit)

SkipOf(q) == (PageOf(q) - 1) * LimitOf(q)

\* The ceiling of total / limit for limit > 0.
CeilDiv(total, limit) == (total + limit - 1) \div limit

\* Line 274: Math.ceil(total / limit) in floating point, total >= 0: a
\* division by zero gives Infinity, or NaN for 0 / 0 (both null in the
\* JSON response); a negative limit gives the ceiling of a negative ratio.
Pages(total, limit) ==
    IF limit > 0 THEN [kind |-> "int", val |-> CeilDiv(total, limit)]
    ELSE IF limit < 0 THEN [kind |-> "int", val |-> 0 - (total \div (0 - limit))]
    ELSE IF total = 0 THEN [kind |-> "NaN", val |-> 0]
    ELSE [kind |-> "Infinity", val |-> 0]

\* The where clause built from the explicit query filters; isDraft: false
\* is part of every where clause (see Matches).
ExplicitWhere(q) ==
    [ visibility |-> q.visibility, category |-> q.category,
      userId |-> q.userId, orUser |-> None ]

\* SessionWhere with the forced PUBLIC applied only when the query names no
\* visibility.
SessionWhereKeepsFilter(where, session, userId) ==
    IF session = None
    THEN IF where.visibility = None THEN [where EXCEPT !.visibility = "PUBLIC"] ELSE where
    ELSE IF userId = None /\ FindUser(session) # None
         THEN [where EXCEPT !.orUser = FindUser(session)]
         ELSE where

\* Lines 205-239: the session part of the where clause.
SessionWhere(where, session, userId) ==
    IF session = None
    THEN [where EXCEPT !.visibility = "PUBLIC"]
    ELSE IF userId = None /\ FindUser(session) # None
         THEN [where EXCEPT !.orUser = FindUser(session)]
         ELSE where

\* Matches with the follow relation read the wrong way round.
MatchesFollowReversed(where, p, fl) ==
    /\ p.isDraft = FALSE
    /\ (where.visibility # None => p.visibility = where.visibility)
    /\ (where.category # None => p.category = where.category)
    /\ (where.userId # None => p.userId = where.userId)
    /\ (where.orUser # None =>
          \/ p.visibility = "PUBLIC"
          \/ p.userId = where.orUser
          \/ (p.visibility = "FOLLOWERS" /\ <<p.userId, where.orUser>> \in fl))

\* Matches letting the caller's own drafts through.
MatchesOwnDrafts(where, p, fl) ==
    /\ (p.isDraft = FALSE \/ (where.orUser # None /\ p.userId = where.orUser))
    /\ (where.visibility # None => p.visibility = where.visibility)
    /\ (where.category # None => p.category = where.category)
    /\ (where.userId # None => p.userId = where.userId)
    /\ (where.orUser # None =>
          \/ p.visibility = "PUBLIC"
          \/ p.userId = where.orUser
          \/ (p.visibility = "FOLLOWERS" /\ <<where.orUser, p.userId>> \in fl))

\* Does the post row satisfy the where clause?
Matches(where, p, fl) ==
    /\ p.isDraft = FALSE
    /\ (where.visibility # None => p.visibility = where.visibility)
    /\ (where.category # None => p.category = where.category)
    /\ (where.userId # None => p.userId = where.userId)
    /\ (where.orUser # None =>
          \/ p.visibility = "PUBLIC"
          \/ p.userId = where.orUser
          \/ (p.visibility = "FOLLOWERS" /\ <<where.orUser, p.userId>> \in fl))

Matching(where, ps, fl) == {p \in ps : Matches(where, p, fl)}

\* orderBy: { createdAt: 'desc' }; ids are given in creation order.
RECURSIVE SortDesc(_)
SortDesc(S) ==
    IF S = {} THEN <<>>
    ELSE LET m == CHOOSE p \in S : \A q \in S : q.id <= p.id
         IN <<m>> \o SortDesc(S \ {m})

\* skip, take
Slice(seq, skip, take) == SubSeq(seq, skip + 1, Min(skip + take, Len(seq)))

Max(a, b) == IF a > b THEN a ELSE b

\* A negative take: the rows are taken from the end of the ordered list,
\* after skipping from that end.
SliceFromEnd(seq, skip, take) ==
    SubSeq(seq, Max(1, Len(seq) - skip + take + 1), Len(seq) - skip)

\* prisma.post.findMany({ where, orderBy, skip, take }) for skip >= 0; the
\* client rejects a negative skip.
FindMany(where, ps, fl, skip, take) ==
    IF take >= 0
    THEN Slice(SortDesc(Matching(where, ps, fl)), skip, take)
    ELSE SliceFromEnd(SortDesc(Matching(where, ps, fl)), skip, take)

\* Lines 178-202: read the query, build the where clause, for a request
\* with a query of qs.
GetParseOf(qs) ==
    /\ gPc = "idle"
    /\ \E q \in qs :
         /\ gQuery' = q
         /\ gWhere' = ExplicitWhere(q)
    /\ gPc' = "session"
    /\ UNCHANGED <<gPosts, gTotal, gSeen, gResp, dbVars, crVars>>

\* Lines 178-202, any request.
GetParse == GetParseOf(Queries)

\* Lines 205-239: the session and the visibility rules.
GetSession ==
    /\ gPc = "session"
    /\ gWhere' = SessionWhere(gWhere, gQuery.session, gQuery.userId)
    /\ gPc' = "findMany"
    /\ UNCHANGED <<gQuery, gPosts, gTotal, gSeen, gResp, dbVars, crVars>>

\* Lines 241-264: read the page; a negative skip is rejected by the
\* database client and the catch of lines 278-284 answers 500.
GetFindMany ==
    /\ gPc = "findMany"
    /\ IF SkipOf(gQuery) >= 0
       THEN /\ gPosts' = FindMany(gWhere, posts, follows, SkipOf(gQuery), LimitOf(gQuery))
            /\ gSeen' = Cardinality(Matching(gWhere, posts, follows))
            /\ gPc' = "count"
            /\ gResp' = gResp
       ELSE /\ gPosts' = <<>>
            /\ gSeen' = gSeen
            /\ gPc' = "done"
            /\ gResp' = [status |-> 500, pagination |-> NoPagination]
    /\ UNCHANGED <<gQuery, gWhere, gTotal, dbVars, crVars>>

\* Lines 266-276: count the matching rows and respond.
GetCount ==
    /\ gPc = "count"
    /\ gTotal' = Cardinality(Matching(gWhere, posts, follows))
    /\ gResp' = [ status |-> 200,
                  pagination |-> [ page |-> PageOf(gQuery), limit |-> LimitOf(gQuery),
                                   total |-> gTotal',
                                   pages |-> Pages(gTotal', LimitOf(gQuery)) ] ]
    /\ gPc' = "done"
    /\ UNCHANGED <<gQuery, gWhere, gPosts, gSeen, dbVars, crVars>>

\* Lines 278-284: a database call of the listing throws.
GetFail ==
    /\ gPc \in {"findMany", "count"}
    /\ gPosts' = <<>>
    /\ gResp' = [status |-> 500, pagination |-> NoPagination]
    /\ gPc' = "done"
    /\ UNCHANGED <<gQuery, gWhere, gTotal, gSeen, dbVars, crVars>>

\* The handler is ready for the next listing request.
GetReset ==
    /\ gPc = "done"
    /\ gPc' = "idle"
    /\ gQuery' = NoQuery
    /\ gWhere' = NoWhere
    /\ gPosts' = <<>>
    /\ gTotal' = 0
    /\ gSeen' = 0
    /\ gResp' = [status |-> 0, pagination |-> NoPagination]
    /\ UNCHANGED <<dbVars, crVars>>

\* -------------------------------------------------------------- creation

NoResp == [status |-> 0, body |-> "none"]

ErrorResp(status) == [status |-> status, body |-> "error"]

\* The empty string and null, as values of coverImage.
EmptyStr == <<"empty">>

Null == <<"null">>

\* Line 39: !title || !description || !category || !files || files.length === 0.
\* A value of files that is truthy and has no length passes the test.
MissingFields(b) ==
    \/ ~b.title
    \/ ~b.description
    \/ b.category = None
    \/ b.files.kind = "absent"
    \/ (b.files.kind = "list" /\ Len(b.files.items) = 0)

\* The id of a new row: later than every id in use.
NewId(ps) ==
    IF ps = {} THEN 1
    ELSE 1 + (CHOOSE m \in {p.id : p \in ps} : \A q \in ps : q.id <= m)

\* moveFileFromTemp(s3Key, finalKey) when it does not throw: the object
\* leaves temporary storage, is in final storage, and its URL is returned.
MoveFileFromTemp(s3Key, finalKey, temp, final) ==
    [temp |-> temp \ {s3Key}, final |-> final \cup {finalKey}, url |-> UrlOf(finalKey)]

\* Lines 109-111: files.find(f => coverImage.includes(basename of f.s3Key)),
\* as the index of the first such file, 0 when there is none.
CoverFile(chars, items) ==
    LET hit == {i \in 1..Len(items) : Includes(chars, BaseName(items[i].s3Key))}
    IN IF hit = {} THEN 0 ELSE CHOOSE i \in hit : \A j \in hit : i <= j

\* Lines 106-122: finalCoverImage, for a coverImage that is absent or a string.
FinalCoverImage(b, userId, postId) ==
    IF b.coverImage.kind # "str" THEN EmptyStr
    ELSE LET i == CoverFile(b.coverImage.chars, b.files.items)
         IN IF i = 0 THEN EmptyStr
            ELSE UrlOf(GenerateFinalKey(userId, postId, b.files.items[i].fileName, b.visibility))

\* CoverChoice without the fallback to the first moved file.
CoverChoiceNoFallback(finalCoverImage, movedFiles) == finalCoverImage

\* Line 128: finalCoverImage || movedFiles[0] || null.
CoverChoice(finalCoverImage, movedFiles) ==
    IF finalCoverImage # EmptyStr THEN finalCoverImage
    ELSE IF Len(movedFiles) > 0 THEN movedFiles[1]
    ELSE Null

\* Where the loop goes after the file at index i.
AfterFile(i, items) == IF i + 1 > Len(items) THEN "cover" ELSE "move"

Logged(entry) == \E k \in 1..Len(crLog) : crLog[k] = entry

\* PostSession without the early return for a missing session.
PostSessionNoCheck ==
    /\ crPc = "idle"
    /\ \E s \in Sessions, b \in Bodies :
         /\ crSession' = s
         /\ crBody' = b
         /\ crResp' = crResp
         /\ crPc' = "validate"
    /\ UNCHANGED <<crUser, crPostId, crIdx, crMoved, crCover, crLog, dbVars, gVars>>

\* Lines 18-36: the session check, then the body is read, for a request
\* with a session of ss and a body of bs.
PostSessionOf(ss, bs) ==
    /\ crPc = "idle"
    /\ \E s \in ss, b \in bs :
         /\ crSession' = s
         /\ crBody' = b
         /\ IF s = None
            THEN crResp' = ErrorResp(401) /\ crPc' = "done"
            ELSE crResp' = crResp /\ crPc' = "validate"
    /\ UNCHANGED <<crUser, crPostId, crIdx, crMoved, crCover, crLog, dbVars, gVars>>

\* Lines 18-36, any request.
PostSession == PostSessionOf(Sessions, Bodies)

\* PostValidate as if the user lookup came first: a caller without a user
\* record is answered 404 before the fields are looked at.
PostValidateAfterLookup ==
    /\ crPc = "validate"
    /\ IF FindUser(crSession) = None
       THEN crResp' = ErrorResp(404) /\ crPc' = "done"
       ELSE IF MissingFields(crBody)
            THEN crResp' = ErrorResp(400) /\ crPc' = "done"
            ELSE crResp' = crResp /\ crPc' = "findUser"
    /\ UNCHANGED <<crSession, crBody, crUser, crPostId, crIdx, crMoved, crCover, crLog, dbVars, gVars>>

\* Lines 38-44: required fields.
PostValidate ==
    /\ crPc = "validate"
    /\ IF MissingFields(crBody)
       THEN crResp' = ErrorResp(400) /\ crPc' = "done"
       ELSE crResp' = crResp /\ crPc' = "findUser"
    /\ UNCHANGED <<crSession, crBody, crUser, crPostId, crIdx, crMoved, crCover, crLog, dbVars, gVars>>

\* Lines 46-56 (and 167-173 when the lookup throws).
PostFindUser ==
    /\ crPc = "findUser"
    /\ \/ /\ crLog' = Append(crLog, <<"user.findUnique", 0, TRUE>>)
          /\ crUser' = FindUser(crSession)
          /\ IF crUser' = None
             THEN crResp' = ErrorResp(404) /\ crPc' = "done"
             ELSE crResp' = crResp /\ crPc' = "create"
       \/ /\ crLog' = Append(crLog, <<"user.findUnique", 0, FALSE>>)
          /\ crResp' = ErrorResp(500)
          /\ crPc' = "done"
          /\ crUser' = crUser
    /\ UNCHANGED <<crSession, crBody, crPostId, crIdx, crMoved, crCover, dbVars, gVars>>

\* Lines 58-70 (and 167-173 when the insert throws).
PostCreate ==
    /\ crPc = "create"
    /\ \/ /\ crLog' = Append(crLog, <<"post.create", 0, TRUE>>)
          /\ crPostId' = NewId(posts)
          /\ posts' = posts \cup
               { [ id |-> crPostId', userId |-> crUser, visibility |-> crBody.visibility,
                   category |-> crBody.category, isDraft |-> crBody.isDraft,
                   coverImage |-> EmptyStr ] }
          /\ crPc' = "iterate"
          /\ crResp' = crResp
       \/ /\ crLog' = Append(crLog, <<"post.create", 0, FALSE>>)
          /\ crResp' = ErrorResp(500)
          /\ crPc' = "done"
          /\ UNCHANGED <<crPostId, posts>>
    /\ UNCHANGED <<crSession, crBody, crUser, crIdx, crMoved, crCover,
                   follows, images, tempObjs, finalObjs, gVars>>

\* Lines 74-76: movedFiles = [], and the for...of over files, which throws
\* a TypeError into the outer try block when files is not iterable.
PostIterate ==
    /\ crPc = "iterate"
    /\ crMoved' = <<>>
    /\ IF crBody.files.kind = "list"
       THEN /\ crIdx' = 1
            /\ crPc' = "move"
            /\ crLog' = crLog
       ELSE /\ crIdx' = crIdx
            /\ crPc' = "compensate"
            /\ crLog' = Append(crLog, <<"iterate", 0, FALSE>>)
    /\ UNCHANGED <<crSession, crBody, crUser, crPostId, crCover, crResp, dbVars, gVars>>

\* PostMoveFile whose throwing move ends the loop.
PostMoveFileBreaks ==
    /\ crPc = "move"
    /\ LET file == crBody.files.items[crIdx]
           finalKey == GenerateFinalKey(crUser, crPostId, file.fileName, crBody.visibility)
           res == MoveFileFromTemp(file.s3Key, finalKey, tempObjs, finalObjs)
       IN \/ /\ file.s3Key \in tempObjs
             /\ tempObjs' = res.temp
             /\ finalObjs' = res.final
             /\ crMoved' = Append(crMoved, res.url)
             /\ crLog' = Append(crLog, <<"move", crIdx, TRUE>>)
             /\ crPc' = "image"
             /\ crIdx' = crIdx
          \/ /\ crLog' = Append(crLog, <<"move", crIdx, FALSE>>)
             /\ crIdx' = crIdx + 1
             /\ crPc' = "cover"
             /\ UNCHANGED <<tempObjs, finalObjs, crMoved>>
    /\ UNCHANGED <<crSession, crBody, crUser, crPostId, crCover, crResp,
                   follows, posts, images, gVars>>

\* PostMoveFile whose throwing move is not caught before the Image insert:
\* the file is recorded although it was not moved.
PostMoveFileRecordsAnyway ==
    /\ crPc = "move"
    /\ LET file == crBody.files.items[crIdx]
           finalKey == GenerateFinalKey(crUser, crPostId, file.fileName, crBody.visibility)
           res == MoveFileFromTemp(file.s3Key, finalKey, tempObjs, finalObjs)
       IN \/ /\ file.s3Key \in tempObjs
             /\ tempObjs' = res.temp
             /\ finalObjs' = res.final
             /\ crMoved' = Append(crMoved, res.url)
             /\ crLog' = Append(crLog, <<"move", crIdx, TRUE>>)
          \/ /\ crLog' = Append(crLog, <<"move", crIdx, FALSE>>)
             /\ crMoved' = Append(crMoved, res.url)
             /\ UNCHANGED <<tempObjs, finalObjs>>
    /\ crPc' = "image"
    /\ crIdx' = crIdx
    /\ UNCHANGED <<crSession, crBody, crUser, crPostId, crCover, crResp,
                   follows, posts, images, gVars>>

\* Lines 77-88 and 99-102: the final key, the move, movedFiles.push; a
\* throwing move is caught and the loop goes on.
PostMoveFile ==
    /\ crPc = "move"
    /\ LET file == crBody.files.items[crIdx]
           finalKey == GenerateFinalKey(crUser, crPostId, file.fileName, crBody.visibility)
           res == MoveFileFromTemp(file.s3Key, finalKey, tempObjs, finalObjs)
       IN \/ /\ file.s3Key \in tempObjs
             /\ tempObjs' = res.temp
             /\ finalObjs' = res.final
             /\ crMoved' = Append(crMoved, res.url)
             /\ crLog' = Append(crLog, <<"move", crIdx, TRUE>>)
             /\ crPc' = "image"
             /\ crIdx' = crIdx
          \/ /\ crLog' = Append(crLog, <<"move", crIdx, FALSE>>)
             /\ crIdx' = crIdx + 1
             /\ crPc' = AfterFile(crIdx, crBody.files.items)
             /\ UNCHANGED <<tempObjs, finalObjs, crMoved>>
    /\ UNCHANGED <<crSession, crBody, crUser, crPostId, crCover, crResp,
                   follows, posts, images, gVars>>

\* PostImageCreate recording movedFiles[0] instead of the URL of the file
\* just moved.
PostImageCreateStaleUrl ==
    /\ crPc = "image"
    /\ \/ /\ images' = Append(images, [url |-> crMoved[1], postId |-> crPostId])
          /\ crLog' = Append(crLog, <<"image.create", crIdx, TRUE>>)
       \/ /\ images' = images
          /\ crLog' = Append(crLog, <<"image.create", crIdx, FALSE>>)
    /\ crIdx' = crIdx + 1
    /\ crPc' = AfterFile(crIdx, crBody.files.items)
    /\ UNCHANGED <<crSession, crBody, crUser, crPostId, crMoved, crCover, crResp,
                   follows, posts, tempObjs, finalObjs, gVars>>

\* Lines 90-102: the Image row of the moved file; a throwing insert is
\* caught and the loop goes on.
PostImageCreate ==
    /\ crPc = "image"
    /\ \/ /\ images' = Append(images, [url |-> crMoved[Len(crMoved)], postId |-> crPostId])
          /\ crLog' = Append(crLog, <<"image.create", crIdx, TRUE>>)
       \/ /\ images' = images
          /\ crLog' = Append(crLog, <<"image.create", crIdx, FALSE>>)
    /\ crIdx' = crIdx + 1
    /\ crPc' = AfterFile(crIdx, crBody.files.items)
    /\ UNCHANGED <<crSession, crBody, crUser, crPostId, crMoved, crCover, crResp,
                   follows, posts, tempObjs, finalObjs, gVars>>

\* Lines 105-122: finalCoverImage; coverImage.includes throws a TypeError
\* into the outer try block when coverImage is truthy and not a string.
PostCover ==
    /\ crPc = "cover"
    /\ IF crBody.coverImage.kind = "nonstring"
       THEN /\ crPc' = "compensate"
            /\ crLog' = Append(crLog, <<"cover", 0, FALSE>>)
            /\ crCover' = EmptyStr
       ELSE /\ crPc' = "update"
            /\ crLog' = crLog
            /\ crCover' = FinalCoverImage(crBody, crUser, crPostId)
    /\ UNCHANGED <<crSession, crBody, crUser, crPostId, crIdx, crMoved, crResp, dbVars, gVars>>

\* Lines 124-151: the cover-image update and the 200 response; a throwing
\* update goes to the catch of the outer try block.
PostUpdate ==
    /\ crPc = "update"
    /\ \/ /\ posts' = { IF p.id = crPostId
                        THEN [p EXCEPT !.coverImage = CoverChoice(crCover, crMoved)]
                        ELSE p : p \in posts }
          /\ crLog' = Append(crLog, <<"post.update", 0, TRUE>>)
          /\ crResp' = [status |-> 200, body |-> "post"]
          /\ crPc' = "done"
       \/ /\ posts' = posts
          /\ crLog' = Append(crLog, <<"post.update", 0, FALSE>>)
          /\ crResp' = crResp
          /\ crPc' = "compensate"
    /\ UNCHANGED <<crSession, crBody, crUser, crPostId, crIdx, crMoved, crCover,
                   follows, images, tempObjs, finalObjs, gVars>>

\* Lines 153-165: delete the post and answer 500; lines 167-173 when the
\* delete itself throws.  The post's Image rows go with the post.
PostCompensate ==
    /\ crPc = "compensate"
    /\ \/ /\ posts' = {p \in posts : p.id # crPostId}
          /\ images' = SelectSeq(images, LAMBDA im : im.postId # crPostId)
          /\ crLog' = Append(crLog, <<"post.delete", 0, TRUE>>)
       \/ /\ UNCHANGED <<posts, images>>
          /\ crLog' = Append(crLog, <<"post.delete", 0, FALSE>>)
    /\ crResp' = ErrorResp(500)
    /\ crPc' = "done"
    /\ UNCHANGED <<crSession, crBody, crUser, crPostId, crIdx, crMoved, crCover,
                   follows, tempObjs, finalObjs, gVars>>

\* ---------------------------------------------------------- specifications

Init ==
    /\ follows \in SUBSET {<<"u1", "u2">>, <<"u2", "u1">>}
    /\ posts = SeedPosts
    /\ images = <<>>
    /\ tempObjs = SeedTemp
    /\ finalObjs = {}
    /\ crPc = "idle"
    /\ crSession = None
    /\ crBody = NoBody
    /\ crUser = None
    /\ crPostId = 0
    /\ crIdx = 0
    /\ crMoved = <<>>
    /\ crCover = EmptyStr
    /\ crResp = NoResp
    /\ crLog = <<>>
    /\ gPc = "idle"
    /\ gQuery = NoQuery
    /\ gWhere = NoWhere
    /\ gPosts = <<>>
    /\ gTotal = 0
    /\ gSeen = 0
    /\ gResp = [status |-> 0, pagination |-> NoPagination]

NextList ==
    \/ GetParse
    \/ GetSession
    \/ GetFindMany
    \/ GetCount
    \/ GetFail
    \/ GetReset

NextCreate ==
    \/ PostSession
    \/ PostValidate
    \/ PostFindUser
    \/ PostCreate
    \/ PostIterate
    \/ PostMoveFile
    \/ PostImageCreate
    \/ PostCover
    \/ PostUpdate
    \/ PostCompensate

\* The requests of the concurrent runs: creations by u1 of a public,
\* published post, with every files value that passes validation and a
\* coverImage that is absent or not a string; unfiltered listings of the
\* first page, by u1 or without a session.
ConcBodies ==
    { b \in Bodies :
        /\ ~MissingFields(b)
        /\ b.category = "CAT_A"
        /\ b.visibility = "PUBLIC"
        /\ ~b.isDraft
        /\ b.coverImage.kind \in {"absent", "nonstring"} }

ConcQueries ==
    { q \in Queries :
        /\ q.page = <<>>
        /\ q.limit \in {<<>>, <<1>>}
        /\ q.visibility = None
        /\ q.category = None
        /\ q.userId = None
        /\ q.session \in {None, "e1"} }

ConcPostSession == PostSessionOf({"e1"}, ConcBodies)

ConcGetParse == GetParseOf(ConcQueries)

\* The handlers run concurrently: the steps of a creation request and of
\* listing requests interleave at every await.
NextConc ==
    \/ ConcPostSession
    \/ PostValidate
    \/ PostFindUser
    \/ PostCreate
    \/ PostIterate
    \/ PostMoveFile
    \/ PostImageCreate
    \/ PostCover
    \/ PostUpdate
    \/ PostCompensate
    \/ ConcGetParse
    \/ GetSession
    \/ GetFindMany
    \/ GetCount
    \/ GetFail
    \/ GetReset

\* Listing requests, one after another, over a database no one writes.
SpecList == Init /\ [][NextList]_vars

\* One creation request.
SpecCreate == Init /\ [][NextCreate]_vars

\* One creation request with listing requests running beside it.
SpecConc == Init /\ [][NextConc]_vars

\* ------------------------------------------------------ claims: listing

\* The user the session of a request resolves to, or None.
Caller(session) == IF session = None THEN None ELSE FindUser(session)

\* May caller c see post p?
Authorized(c, p, fl) ==
    \/ p.visibility = "PUBLIC"
    \/ (c # None /\ p.userId = c)
    \/ (c # None /\ p.visibility = "FOLLOWERS" /\ <<c, p.userId>> \in fl)

Listed == {gPosts[i] : i \in 1..Len(gPosts)}

\* C1: every post of a returned page is one the caller is authorized to
\* see (PUBLIC, or the caller's own, or FOLLOWERS with the caller following
\* the owner), whatever the filters and whoever the caller.
C1_PageAuthorized ==
    (gPc = "done" /\ gResp.status = 200) =>
        \A p \in Listed : Authorized(Caller(gQuery.session), p, follows)

\* C2: a listing request without a session returns PUBLIC posts only,
\* whatever visibility or userId the query asks for.
C2_UnauthenticatedOnlyPublic ==
    (gPc = "done" /\ gQuery.session = None) =>
        \A p \in Listed : p.visibility = "PUBLIC"

\* C2 witness: an unauthenticated request asking for FOLLOWERS posts of a
\* user got a non-empty page.
C2_Witness ==
    /\ gPc = "done"
    /\ gResp.status = 200
    /\ gQuery.session = None
    /\ gQuery.visibility = "FOLLOWERS"
    /\ gQuery.userId = "u1"
    /\ Listed # {}

\* The posts an authenticated caller c is meant to get without filters.
VisibleTo(c) == {p \in posts : ~p.isDraft /\ Authorized(c, p, follows)}

\* C3: for an authenticated caller with a user record and no userId,
\* visibility or category filter, the matching posts are exactly the
\* non-draft posts that are PUBLIC, the caller's own, or FOLLOWERS posts of
\* an owner the caller follows: total counts them, the page is their slice,
\* and no PRIVATE post of another user nor FOLLOWERS post of an owner the
\* caller does not follow is in it.
C3_AuthenticatedMatchesExactly ==
    ( /\ gPc = "done"
      /\ gResp.status = 200
      /\ Caller(gQuery.session) # None
      /\ gQuery.userId = None
      /\ gQuery.visibility = None
      /\ gQuery.category = None ) =>
        LET c == Caller(gQuery.session)
        IN /\ gTotal = Cardinality(VisibleTo(c))
           /\ Listed \subseteq VisibleTo(c)
           /\ (LimitOf(gQuery) >= 0 =>
                 gPosts = Slice(SortDesc(VisibleTo(c)), SkipOf(gQuery), LimitOf(gQuery)))
           /\ \A p \in Listed :
                /\ (p.visibility = "PRIVATE" => p.userId = c)
                /\ (p.visibility = "FOLLOWERS" => (p.userId = c \/ <<c, p.userId>> \in follows))

\* C3 witness: u1 follows u2 and is not followed back; u1's unfiltered page
\* holds u2's FOLLOWERS post and u1's own PRIVATE post.
C3_Witness ==
    /\ gPc = "done"
    /\ gResp.status = 200
    /\ gQuery.session = "e1"
    /\ gQuery.userId = None
    /\ gQuery.visibility = None
    /\ gQuery.category = None
    /\ follows = {<<"u1", "u2">>}
    /\ \E p \in Listed : p.userId = "u2" /\ p.visibility = "FOLLOWERS"
    /\ \E p \in Listed : p.userId = "u1" /\ p.visibility = "PRIVATE"

\* ----------------------------------------------------- claims: creation

Items == crBody.files.items

\* Files whose move did not throw / threw.
MoveOk == {i \in 1..Len(Items) : Logged(<<"move", i, TRUE>>)}

MoveFailed == {i \in 1..Len(Items) : Logged(<<"move", i, FALSE>>)}

\* Files whose Image row was inserted.
ImageOk == {i \in 1..Len(Items) : Logged(<<"image.create", i, TRUE>>)}

\* Does the Post row of the request exist?
PostExists == \E p \in posts : p.id = crPostId

ThePost == CHOOSE p \in posts : p.id = crPostId

\* The Image rows of the request's post.
PostImages == SelectSeq(images, LAMBDA im : im.postId = crPostId)

\* An error reached the catch of the file-processing block.
BlockError ==
    \/ Logged(<<"iterate", 0, FALSE>>)
    \/ Logged(<<"cover", 0, FALSE>>)
    \/ Logged(<<"post.update", 0, FALSE>>)

\* Nothing but moves threw.
OnlyMovesThrew == \A k \in 1..Len(crLog) : (crLog[k][3] = FALSE => crLog[k][1] = "move")

\* Database and storage are as before the request.
NoSideEffects ==
    /\ posts = SeedPosts
    /\ images = <<>>
    /\ tempObjs = SeedTemp
    /\ finalObjs = {}

\* C4: after an error in the file-processing block the Post row is gone and
\* the response is 500, also when the compensating delete can fail.
C4_BlockErrorRemovesPost ==
    (crPc = "done" /\ BlockError) => (~PostExists /\ crResp.status = 500)

\* A payload with all required fields, an array of files and a coverImage
\* that is absent or a string.
ValidPayload(b) ==
    /\ ~MissingFields(b)
    /\ b.files.kind = "list"
    /\ b.coverImage.kind # "nonstring"

\* C5: an authenticated request with a valid payload ends with 200 and a
\* persisted Post with at least one Image row, or with a failure response
\* and no Post row of the request left.
C5_PostWithImagesOrNothing ==
    (crPc = "done" /\ crSession # None /\ ValidPayload(crBody)) =>
        \/ (crResp.status = 200 /\ PostExists /\ Len(PostImages) >= 1)
        \/ (crResp.status # 200 /\ ~PostExists)

\* C6 as stated: on 200 the post has as many Image rows as files whose move
\* did not throw.
C6_ImagesEqualMoves ==
    (crPc = "done" /\ crResp.status = 200) => Len(PostImages) = Cardinality(MoveOk)

\* C6 amended: on 200 the post has one Image row for each file whose move
\* and whose Image insert both did not throw, and no other: the rows are at
\* most as many as the moved files and each carries the URL its file's
\* move returned.
C6_ImagesEqualRecordedMoves ==
    (crPc = "done" /\ crResp.status = 200) =>
        /\ ImageOk \subseteq MoveOk
        /\ Len(PostImages) = Cardinality(ImageOk)
        /\ Len(PostImages) <= Cardinality(MoveOk)
        /\ \A k \in 1..Len(PostImages) :
             \E j \in 1..Len(crMoved) : PostImages[k].url = crMoved[j]

\* C6 witness: two files moved, the Image insert of one of them threw, and
\* the request ended with 200.
C6_Witness ==
    /\ crPc = "done"
    /\ crResp.status = 200
    /\ MoveOk = {1, 2}
    /\ ImageOk = {2}
    /\ Len(PostImages) = 1

\* C7: a throwing move does not stop the request: every file of the list is
\* still processed before the cover image is resolved, and when nothing but
\* moves threw the response is 200 with the post and no error, and the post
\* has one Image row per file less the failed moves (n-1 for one failure).
C7_FileFailureSkipped ==
    /\ (crPc \in {"cover", "update"} \/ (crPc = "done" /\ crResp.status = 200)) =>
          MoveOk \cup MoveFailed = 1..Len(Items)
    /\ (crPc = "done" /\ MoveFailed # {} /\ OnlyMovesThrew) =>
          /\ crResp = [status |-> 200, body |-> "post"]
          /\ PostExists
          /\ Len(PostImages) = Len(Items) - Cardinality(MoveFailed)

\* C7 witness: of two files the first move threw, the second file was moved
\* and recorded, and the response is 200.
C7_Witness ==
    /\ crPc = "done"
    /\ Len(Items) = 2
    /\ MoveFailed = {1}
    /\ MoveOk = {2}
    /\ OnlyMovesThrew
    /\ crResp.status = 200
    /\ Len(PostImages) = 1

\* C8: a creation request without a session gets 401 and does nothing: no
\* user lookup, no Post or Image row, no storage move.
C8_UnauthenticatedNoEffects ==
    (crPc = "done" /\ crSession = None) =>
        /\ crResp = ErrorResp(401)
        /\ crLog = <<>>
        /\ crPostId = 0
        /\ NoSideEffects

\* C8 witness: a request without a session whose payload is otherwise valid
\* has been answered.
C8_Witness ==
    /\ crPc = "done"
    /\ crSession = None
    /\ ValidPayload(crBody)
    /\ Len(Items) = 2
    /\ crResp.status = 401

\* The payload lacks title, description, category or a non-empty files list.
LacksRequired(b) ==
    \/ ~b.title
    \/ ~b.description
    \/ b.category = None
    \/ b.files.kind # "list"
    \/ Len(b.files.items) = 0

\* No database or storage call of the request threw.
NoCallThrew ==
    \A k \in 1..Len(crLog) :
        (crLog[k][3] = FALSE => crLog[k][1] \in {"iterate", "cover"})

\* C9: an authenticated request whose payload lacks title, description,
\* category or a non-empty files list gets 400 and creates no Post row, no
\* Image row and moves nothing (stated for the callers that have a user
\* record and the requests in which no database or storage call throws).
C9_MissingFieldsRejected ==
    ( /\ crPc = "done"
      /\ Caller(crSession) # None
      /\ LacksRequired(crBody)
      /\ NoCallThrew ) =>
        /\ crResp = ErrorResp(400)
        /\ ~Logged(<<"post.create", 0, TRUE>>)
        /\ NoSideEffects

\* C10: after the cover-image update the post's coverImage is the
\* recomputed final URL of the file the coverImage hint matches, else the
\* URL of the first file in request order whose move succeeded, else null;
\* it is never the empty placeholder nor a temporary-storage URL or key.
C10_CoverImageFinalized ==
    (crPc = "done" /\ crResp.status = 200) =>
        LET c == ThePost.coverImage
            hit == IF crBody.coverImage.kind = "str"
                   THEN CoverFile(crBody.coverImage.chars, Items) ELSE 0
            first == CHOOSE i \in MoveOk : \A j \in MoveOk : i <= j
            urlOf(i) == UrlOf(GenerateFinalKey(crUser, crPostId, Items[i].fileName, crBody.visibility))
        IN /\ PostExists
           /\ c # EmptyStr
           /\ (c = Null \/ (c[1] = "url" /\ c[2].store = "final"))
           /\ (hit # 0 => c = urlOf(hit))
           /\ (hit = 0 /\ MoveOk # {} => c = urlOf(first))
           /\ (hit = 0 /\ MoveOk = {} => c = Null)

\* C10 witness: no hint was given, the first move threw, the second file
\* was moved, and the post's cover is the second file's final URL.
C10_Witness ==
    /\ crPc = "done"
    /\ crResp.status = 200
    /\ crBody.coverImage.kind = "absent"
    /\ MoveFailed = {1}
    /\ MoveOk = {2}
    /\ PostExists
    /\ ThePost.coverImage =
         UrlOf(GenerateFinalKey(crUser, crPostId, Items[2].fileName, crBody.visibility))

\* ------------------------------------------------- claims: listing, cont.

\* C11: no listing response contains a draft, whatever the filters and
\* whoever the caller, the owner of the draft included.
C11_NoDraftListed ==
    (gPc = "done") => \A p \in Listed : ~p.isDraft

\* C11 witness: u1, who owns drafts, listed without filters and got a
\* non-empty page holding own posts.
C11_Witness ==
    /\ gPc = "done"
    /\ gResp.status = 200
    /\ gQuery.session = "e1"
    /\ gQuery.userId = None
    /\ gQuery.visibility = None
    /\ gQuery.category = None
    /\ \E p \in posts : p.isDraft /\ p.userId = "u1"
    /\ \E p \in Listed : p.userId = "u1"

\* v is the ceiling of total / limit, for limit # 0.
IsCeiling(v, total, limit) ==
    \/ (limit > 0 /\ (v - 1) * limit < total /\ total <= v * limit)
    \/ (limit < 0 /\ (v - 1) * limit > total /\ total >= v * limit)

\* C12: a successful listing response reports the requested limit clamped
\* to at most 50 (10 when none is given), the requested page (1 when none
\* is given), the number of matching rows as total, and as pages the
\* ceiling of total / limit.
C12_PaginationReported ==
    (gPc = "done" /\ gResp.status = 200) =>
        LET pg == gResp.pagination
            asked == IF gQuery.limit = <<>> THEN 10 ELSE gQuery.limit[1]
        IN /\ pg.limit = (IF asked > 50 THEN 50 ELSE asked)
           /\ pg.page = (IF gQuery.page = <<>> THEN 1 ELSE gQuery.page[1])
           /\ pg.total = gTotal
           /\ pg.pages.kind = "int"
           /\ IsCeiling(pg.pages.val, pg.total, pg.limit)

\* C18: whatever integers page and limit carry, the effective limit is in
\* 1..50 and the skip offset is not negative, so a successful response
\* reports a non-negative integer as pages.
C18_PagingWellDefined ==
    (gPc # "idle") =>
        /\ LimitOf(gQuery) \in 1..MaxLimit
        /\ SkipOf(gQuery) >= 0
        /\ (gPc = "done" /\ gResp.status = 200 =>
               (gResp.pagination.pages.kind = "int" /\ gResp.pagination.pages.val >= 0))

\* ------------------------------------------------ claims: creation, cont.

\* A required field is missing from the payload: no title, description or
\* category, no files member or an empty files array.
FieldMissing(b) ==
    \/ ~b.title
    \/ ~b.description
    \/ b.category = None
    \/ b.files.kind = "absent"
    \/ (b.files.kind = "list" /\ b.files.items = <<>>)

\* C13: the checks of a creation request run in order and the first that
\* fails decides: no session gives 401 whatever the payload, then a missing
\* field gives 400 whether or not the caller has a user record, then an
\* absent user record gives 404; the Post row is inserted only after all
\* three passed, so 401, 400 and 404 leave no Post row.
C13_ChecksInOrder ==
    /\ (crPc = "done" /\ crSession = None) => crResp.status = 401
    /\ (crPc = "done" /\ crSession # None /\ FieldMissing(crBody)) => crResp.status = 400
    /\ ( /\ crPc = "done"
         /\ crSession # None
         /\ ~FieldMissing(crBody)
         /\ Logged(<<"user.findUnique", 0, TRUE>>)
         /\ FindUser(crSession) = None ) => crResp.status = 404
    /\ (Logged(<<"post.create", 0, TRUE>>) \/ Logged(<<"post.create", 0, FALSE>>)) =>
          /\ crSession # None
          /\ ~FieldMissing(crBody)
          /\ FindUser(crSession) # None
          /\ crLog[1] = <<"user.findUnique", 0, TRUE>>
    /\ (crPc = "done" /\ crResp.status \in {401, 400, 404}) =>
          /\ crPostId = 0
          /\ posts = SeedPosts
          /\ ~Logged(<<"post.create", 0, TRUE>>)

\* C13 witness: a caller with a session but no user record sent a payload
\* without a title and was answered 400, with no lookup made.
C13_Witness ==
    /\ crPc = "done"
    /\ crSession = "e3"
    /\ ~crBody.title
    /\ crResp.status = 400
    /\ crLog = <<>>

\* The URL the move of file i returned: movedFiles holds the URLs of the
\* moved files in request order.
MovedUrl(i) == crMoved[Cardinality({j \in MoveOk : j <= i})]

\* C14: in every state, every Image row of the request references the Post
\* the request created and carries the URL the move of its file returned;
\* the insert of a file's Image row is attempted only after that file's
\* move completed, no file whose move threw has an Image row, and no move
\* starts before the Post row was inserted.
C14_ImagesFollowMoves ==
    /\ \A k \in 1..Len(images) :
          /\ crPostId # 0
          /\ images[k].postId = crPostId
          /\ PostExists
          /\ \E i \in ImageOk : images[k].url = MovedUrl(i)
    /\ ~Logged(<<"post.delete", 0, TRUE>>) =>
          /\ Len(images) = Cardinality(ImageOk)
          /\ \A i \in ImageOk : \E k \in 1..Len(images) : images[k].url = MovedUrl(i)
    /\ ImageOk \subseteq MoveOk
    /\ MoveOk \cap MoveFailed = {}
    /\ \A k \in 1..Len(crLog) :
          /\ crLog[k][1] = "image.create" =>
                \E j \in 1..(k - 1) : crLog[j] = <<"move", crLog[k][2], TRUE>>
          /\ crLog[k][1] = "move" =>
                \E j \in 1..(k - 1) : crLog[j] = <<"post.create", 0, TRUE>>

\* C14 witness: both files of a request were moved and recorded.
C14_Witness ==
    /\ Len(Items) = 2
    /\ ImageOk = {1, 2}
    /\ Len(images) = 2
    /\ images[1].url # images[2].url

\* C15: when a creation request ends with 200 and the post's coverImage is
\* not null, the coverImage is the url of one of the post's Image rows.
C15_CoverIsRecordedImage ==
    (crPc = "done" /\ crResp.status = 200 /\ ThePost.coverImage # Null) =>
        \E k \in 1..Len(PostImages) : PostImages[k].url = ThePost.coverImage

\* C17: when a creation request ends with a failure response after its
\* Post row was inserted and the compensating delete went through, the
\* Post row, the Image rows of the post and every object the request moved
\* into final storage are gone.
C17_CompensationLeavesNothing ==
    ( /\ crPc = "done"
      /\ crResp.status # 200
      /\ Logged(<<"post.create", 0, TRUE>>)
      /\ Logged(<<"post.delete", 0, TRUE>>) ) =>
        /\ ~PostExists
        /\ PostImages = <<>>
        /\ finalObjs = {}

\* --------------------------------------------------- claims: concurrency

\* C16: a listing that runs beside a creation never returns a post whose
\* creation is in progress or gets compensated: no returned post carries
\* the empty coverImage placeholder, and none is a post the creating
\* request deletes.
C16_NoHalfCreatedPostListed ==
    (gPc = "done" /\ gResp.status = 200) =>
        \A p \in Listed :
            /\ p.coverImage # EmptyStr
            /\ ~(p.id = crPostId /\ Logged(<<"post.delete", 0, TRUE>>))

\* C19: the total of a listing response is the number of rows that matched
\* in the database state the page was read from, so the page never holds
\* more posts than total.
C19_TotalMatchesPage ==
    (gPc = "done" /\ gResp.status = 200) =>
        /\ gResp.pagination.total = gSeen
        /\ Len(gPosts) <= gResp.pagination.total

====
